---------------------------- MODULE Spec2Model ----------------------------
(***************************************************************************)
(* Model of the Google ADK agent templates.                                *)
(*                                                                         *)
(*   agent_template.py        three tool callbacks (get_current_time,      *)
(*                            get_weather, save_user_preference)           *)
(*   multi_agent_template.py  ReportPipeline = SequentialAgent             *)
(*                            [ParallelAgent [Researcher, DataAnalyst],    *)
(*                             Writer]                                     *)
(*                                                                         *)
(* A Python str is a sequence of one-character strings, so that lower(),   *)
(* f-string concatenation, strftime and template interpolation are         *)
(* computed character by character.  A dict is a function.                 *)
(***************************************************************************)
EXTENDS Integers, Sequences, FiniteSets, TLC

VARIABLES
    state,      \* session state: dict from key (str) to value (str)
    last,       \* the last tool call: tool name, arguments, returned value
    latest,     \* history: for each preference key, the value of its latest save
    repeated,   \* history: the last call repeated the save made just before it
    status,     \* per LlmAgent: "idle", "running", "done" or "failed"
    rendered,   \* per LlmAgent: its instruction after interpolation
    output,     \* per LlmAgent: the final response it produced
    writes,     \* per session-state key: number of output_key writes
    runs,       \* per LlmAgent: number of times it was started
    stage,      \* index of the SequentialAgent's current sub-agent
    pipeline,   \* "running", "done" or "failed"
    reply       \* what the model answers to the prompt of each agent whose
                \* instruction has no placeholder

toolVars == <<last, latest, repeated>>
pipeVars == <<status, rendered, output, writes, runs, stage, pipeline, reply>>
vars == <<state, last, latest, repeated, status, rendered, output, writes, runs, stage,
          pipeline, reply>>

-----------------------------------------------------------------------------
(* Python built-ins                                                        *)

UpperCase == <<"A","B","C","D","E","F","G","H","I","J","K","L","M","N","O","P","Q","R","S","T","U","V",
       "W","X","Y","Z">>
LowerCase == <<"a","b","c","d","e","f","g","h","i","j","k","l","m","n","o","p","q","r","s","t","u","v",
       "w","x","y","z">>

\* str.lower() on one character
lower_char(c) ==
    IF \E i \in 1..Len(UpperCase) : UpperCase[i] = c
    THEN LowerCase[CHOOSE i \in 1..Len(UpperCase) : UpperCase[i] = c]
    ELSE c

\* str.lower()
lower(s) == [i \in 1..Len(s) |-> lower_char(s[i])]

\* dict.get(key): None when the key is absent
None == [found |-> FALSE]
Some(v) == [found |-> TRUE, val |-> v]
dict_get(d, k) == IF k \in DOMAIN d THEN Some(d[k]) ELSE None

\* truthiness of an Optional[str]: None and "" are falsy
Truthy(o) == o.found /\ Len(o.val) > 0

\* d[k] = v
dict_set(d, k, v) == (k :> v) @@ d

\* a raised exception, as the outcome of a call
Raise(e) == [exception |-> e]
IsException(r) == "exception" \in DOMAIN r

DigitChars == <<"0","1","2","3","4","5","6","7","8","9">>

\* decimal representation of a natural number (%Y, glibc: no padding)
RECURSIVE Decimal(_)
Decimal(n) == IF n < 10 THEN <<DigitChars[n + 1]>>
              ELSE Decimal(n \div 10) \o <<DigitChars[(n % 10) + 1]>>

\* two-digit zero-padded field (%m %d %H %M %S)
Pad2(n) == <<DigitChars[(n \div 10) + 1], DigitChars[(n % 10) + 1]>>

-----------------------------------------------------------------------------
(* zoneinfo / datetime                                                     *)

\* the IANA time zone database: key -> abbreviations (standard, daylight)
TzDatabase ==
    (<<"A","m","e","r","i","c","a","/","N","e","w","_","Y","o","r","k">> :> [std |-> <<"E","S","T">>, dst |-> <<"E","D","T">>]) @@
    (<<"E","u","r","o","p","e","/","L","o","n","d","o","n">> :> [std |-> <<"G","M","T">>, dst |-> <<"B","S","T">>]) @@
    (<<"A","s","i","a","/","T","o","k","y","o">> :> [std |-> <<"J","S","T">>, dst |-> <<"J","S","T">>]) @@
    (<<"E","u","r","o","p","e","/","P","a","r","i","s">> :> [std |-> <<"C","E","T">>, dst |-> <<"C","E","S","T">>]) @@
    (<<"E","u","r","o","p","e","/","B","e","r","l","i","n">> :> [std |-> <<"C","E","T">>, dst |-> <<"C","E","S","T">>]) @@
    (<<"A","u","s","t","r","a","l","i","a","/","S","y","d","n","e","y">> :> [std |-> <<"A","E","S","T">>, dst |-> <<"A","E","D","T">>])

\* ZoneInfo(key): raises ZoneInfoNotFoundError for a key not in the database
ZoneInfo(key) ==
    IF key \in DOMAIN TzDatabase THEN TzDatabase[key]
    ELSE Raise("ZoneInfoNotFoundError")

\* readings of the wall clock in the requested zone: the local calendar
\* fields and whether daylight saving time is in effect
ClockSamples ==
    { [year |-> 2026, month |-> 1, day |-> 5, hour |-> 0, minute |-> 7,
       second |-> 9, dst |-> FALSE],
      [year |-> 2025, month |-> 12, day |-> 31, hour |-> 23, minute |-> 59,
       second |-> 30, dst |-> TRUE] }

\* datetime.datetime.now(zone)
datetime_now(zone, clock) ==
    [year |-> clock.year, month |-> clock.month, day |-> clock.day,
     hour |-> clock.hour, minute |-> clock.minute, second |-> clock.second,
     tzname |-> IF clock.dst THEN zone.dst ELSE zone.std]

\* now.strftime('%Y-%m-%d %H:%M:%S %Z')
strftime(now) ==
    Decimal(now.year) \o <<"-">> \o Pad2(now.month) \o <<"-">> \o Pad2(now.day)
    \o <<" ">> \o Pad2(now.hour) \o <<":">> \o Pad2(now.minute) \o <<":">>
    \o Pad2(now.second) \o <<" ">> \o now.tzname

-----------------------------------------------------------------------------
(* agent_template.py: the tools                                            *)

\* variant: one time zone key is misspelt
timezone_map_misspelt ==
    (<<"n","e","w"," ","y","o","r","k">> :> <<"A","m","e","r","i","c","a","/","N","e","w","_","Y","o","r","k">>) @@
    (<<"l","o","n","d","o","n">> :> <<"E","u","r","o","p","e","/","L","o","n","d","n">>) @@
    (<<"t","o","k","y","o">> :> <<"A","s","i","a","/","T","o","k","y","o">>) @@
    (<<"p","a","r","i","s">> :> <<"E","u","r","o","p","e","/","P","a","r","i","s">>) @@
    (<<"s","y","d","n","e","y">> :> <<"A","u","s","t","r","a","l","i","a","/","S","y","d","n","e","y">>)

timezone_map ==
    (<<"n","e","w"," ","y","o","r","k">> :> <<"A","m","e","r","i","c","a","/","N","e","w","_","Y","o","r","k">>) @@
    (<<"l","o","n","d","o","n">> :> <<"E","u","r","o","p","e","/","L","o","n","d","o","n">>) @@
    (<<"t","o","k","y","o">> :> <<"A","s","i","a","/","T","o","k","y","o">>) @@
    (<<"p","a","r","i","s">> :> <<"E","u","r","o","p","e","/","P","a","r","i","s">>) @@
    (<<"s","y","d","n","e","y">> :> <<"A","u","s","t","r","a","l","i","a","/","S","y","d","n","e","y">>)

\* variant: the lookup is not case-folded
get_current_time_exact(city, clock) ==
    LET tz_id == dict_get(timezone_map, city) IN
    IF ~Truthy(tz_id)
    THEN [status |-> "error",
          error_message |-> <<"T","i","m","e","z","o","n","e"," ","n","o","t"," ","f","o","u","n","d"," ","f","o","r",
       " ","'">> \o city \o <<"'",".">>]
    ELSE LET zone == ZoneInfo(tz_id.val) IN
         IF IsException(zone) THEN zone
         ELSE [status |-> "success",
               report |-> <<"C","u","r","r","e","n","t"," ","t","i","m","e"," ","i","n"," ">> \o city \o <<":"," ">>
                          \o strftime(datetime_now(zone, clock))]

get_current_time(city, clock) ==
    LET tz_id == dict_get(timezone_map, lower(city)) IN
    IF ~Truthy(tz_id)
    THEN [status |-> "error",
          error_message |-> <<"T","i","m","e","z","o","n","e"," ","n","o","t"," ","f","o","u","n","d"," ","f","o","r",
       " ","'">> \o city \o <<"'",".">>]
    ELSE LET zone == ZoneInfo(tz_id.val) IN
         IF IsException(zone) THEN zone
         ELSE [status |-> "success",
               report |-> <<"C","u","r","r","e","n","t"," ","t","i","m","e"," ","i","n"," ">> \o city \o <<":"," ">>
                          \o strftime(datetime_now(zone, clock))]

mock_weather ==
    (<<"n","e","w"," ","y","o","r","k">> :> <<"S","u","n","n","y",","," ","2","5","°","C"," ","(","7","7","°","F",")">>) @@
    (<<"l","o","n","d","o","n">> :> <<"C","l","o","u","d","y",","," ","1","5","°","C"," ","(","5","9","°","F",")">>) @@
    (<<"t","o","k","y","o">> :> <<"P","a","r","t","l","y"," ","c","l","o","u","d","y",","," ","2","8","°","C"," ","(","8",
       "2","°","F",")">>)

\* variant: the report names the city but leaves out the dataset entry
get_weather_bare(city) ==
    LET report == dict_get(mock_weather, lower(city)) IN
    IF ~Truthy(report)
    THEN [status |-> "error",
          error_message |-> <<"W","e","a","t","h","e","r"," ","d","a","t","a"," ","u","n","a","v","a","i","l","a","b",
       "l","e"," ","f","o","r"," ","'">> \o city \o <<"'",".">>]
    ELSE [status |-> "success", report |-> <<"W","e","a","t","h","e","r"," ","i","n"," ">> \o city]

get_weather(city) ==
    LET report == dict_get(mock_weather, lower(city)) IN
    IF ~Truthy(report)
    THEN [status |-> "error",
          error_message |-> <<"W","e","a","t","h","e","r"," ","d","a","t","a"," ","u","n","a","v","a","i","l","a","b",
       "l","e"," ","f","o","r"," ","'">> \o city \o <<"'",".">>]
    ELSE [status |-> "success",
          report |-> <<"W","e","a","t","h","e","r"," ","i","n"," ">> \o city \o <<":"," ">> \o report.val]

\* variant: an existing preference is kept (setdefault)
save_user_preference_keep(key, value, st) ==
    [result |-> [status |-> "saved", key |-> key, value |-> value],
     state |-> IF (<<"u","s","e","r",":">> \o key) \in DOMAIN st THEN st
               ELSE dict_set(st, <<"u","s","e","r",":">> \o key, value)]

\* variant: the key is written without the user: prefix
save_user_preference_bare(key, value, st) ==
    [result |-> [status |-> "saved", key |-> key, value |-> value],
     state |-> dict_set(st, key, value)]

\* returns the dict and the session state after tool_context.state[...] = value
save_user_preference(key, value, st) ==
    [result |-> [status |-> "saved", key |-> key, value |-> value],
     state |-> dict_set(st, <<"u","s","e","r",":">> \o key, value)]

-----------------------------------------------------------------------------
(* multi_agent_template.py: the agents                                     *)

MODEL == "gemini-2.5-flash"

research_agent ==
    [kind |-> "LlmAgent", name |-> "Researcher", model |-> MODEL,
     instruction |->
       <<"Y","o","u"," ","a","r","e"," ","a"," ","r","e","s","e","a","r","c","h"," ","s","p","e",
       "c","i","a","l","i","s","t","."," ","G","i","v","e","n"," ","a"," ","t","o","p","i","c",
       ","," ","p","r","o","v","i","d","e"," ","3","-","5"," ","k","e","y"," ","f","i","n","d",
       "i","n","g","s","\n","w","i","t","h"," ","b","r","i","e","f"," ","e","x","p","l","a",
       "n","a","t","i","o","n","s","."," ","B","e"," ","f","a","c","t","u","a","l"," ","a","n",
       "d"," ","c","o","n","c","i","s","e",".">>,
     output_key |-> <<"r","e","s","e","a","r","c","h","_","f","i","n","d","i","n","g","s">>]

\* variant: DataAnalyst declares the Researcher's output_key
data_agent_same_key ==
    [kind |-> "LlmAgent", name |-> "DataAnalyst", model |-> MODEL,
     instruction |->
       <<"Y","o","u"," ","a","r","e"," ","a"," ","d","a","t","a"," ","a","n","a","l","y","s","i",
       "s"," ","s","p","e","c","i","a","l","i","s","t","."," ","G","i","v","e","n"," ","a"," ",
       "t","o","p","i","c",","," ","p","r","o","v","i","d","e","\n","r","e","l","e","v","a",
       "n","t"," ","s","t","a","t","i","s","t","i","c","s",","," ","t","r","e","n","d","s",",",
       " ","a","n","d"," ","q","u","a","n","t","i","t","a","t","i","v","e"," ","i","n","s","i",
       "g","h","t","s",".">>,
     output_key |-> <<"r","e","s","e","a","r","c","h","_","f","i","n","d","i","n","g","s">>]

data_agent ==
    [kind |-> "LlmAgent", name |-> "DataAnalyst", model |-> MODEL,
     instruction |->
       <<"Y","o","u"," ","a","r","e"," ","a"," ","d","a","t","a"," ","a","n","a","l","y","s","i",
       "s"," ","s","p","e","c","i","a","l","i","s","t","."," ","G","i","v","e","n"," ","a"," ",
       "t","o","p","i","c",","," ","p","r","o","v","i","d","e","\n","r","e","l","e","v","a",
       "n","t"," ","s","t","a","t","i","s","t","i","c","s",","," ","t","r","e","n","d","s",",",
       " ","a","n","d"," ","q","u","a","n","t","i","t","a","t","i","v","e"," ","i","n","s","i",
       "g","h","t","s",".">>,
     output_key |-> <<"d","a","t","a","_","i","n","s","i","g","h","t","s">>]

\* variant: data_insights is named in the instruction without braces
writer_agent_no_braces ==
    [kind |-> "LlmAgent", name |-> "Writer", model |-> MODEL,
     instruction |->
       <<"Y","o","u"," ","a","r","e"," ","a"," ","p","r","o","f","e","s","s","i","o","n","a","l",
       " ","w","r","i","t","e","r","."," ","U","s","i","n","g"," ","t","h","e"," ","r","e","s",
       "e","a","r","c","h"," ","f","i","n","d","i","n","g","s","\n","f","r","o","m"," ","{",
       "r","e","s","e","a","r","c","h","_","f","i","n","d","i","n","g","s","}"," ","a","n","d",
       " ","d","a","t","a"," ","i","n","s","i","g","h","t","s"," ","f","r","o","m"," ","d","a",
       "t","a","_","i","n","s","i","g","h","t","s",",","\n","w","r","i","t","e"," ","a"," ",
       "w","e","l","l","-","s","t","r","u","c","t","u","r","e","d",","," ","e","n","g","a","g",
       "i","n","g"," ","s","u","m","m","a","r","y","."," ","I","n","c","l","u","d","e"," ","a",
       "n"," ","i","n","t","r","o","d","u","c","t","i","o","n",",","\n","k","e","y"," ","p",
       "o","i","n","t","s",","," ","a","n","d"," ","c","o","n","c","l","u","s","i","o","n",".">>,
     output_key |-> <<"f","i","n","a","l","_","r","e","p","o","r","t">>]

\* variant: the Writer declares the Researcher's output_key
writer_agent_same_key ==
    [kind |-> "LlmAgent", name |-> "Writer", model |-> MODEL,
     instruction |->
       <<"Y","o","u"," ","a","r","e"," ","a"," ","p","r","o","f","e","s","s","i","o","n","a","l",
       " ","w","r","i","t","e","r","."," ","U","s","i","n","g"," ","t","h","e"," ","r","e","s",
       "e","a","r","c","h"," ","f","i","n","d","i","n","g","s","\n","f","r","o","m"," ","{",
       "r","e","s","e","a","r","c","h","_","f","i","n","d","i","n","g","s","}"," ","a","n","d",
       " ","d","a","t","a"," ","i","n","s","i","g","h","t","s"," ","f","r","o","m"," ","{","d",
       "a","t","a","_","i","n","s","i","g","h","t","s","}",",","\n","w","r","i","t","e"," ",
       "a"," ","w","e","l","l","-","s","t","r","u","c","t","u","r","e","d",","," ","e","n","g",
       "a","g","i","n","g"," ","s","u","m","m","a","r","y","."," ","I","n","c","l","u","d","e",
       " ","a","n"," ","i","n","t","r","o","d","u","c","t","i","o","n",",","\n","k","e","y",
       " ","p","o","i","n","t","s",","," ","a","n","d"," ","c","o","n","c","l","u","s","i","o",
       "n",".">>,
     output_key |-> <<"r","e","s","e","a","r","c","h","_","f","i","n","d","i","n","g","s">>]

writer_agent ==
    [kind |-> "LlmAgent", name |-> "Writer", model |-> MODEL,
     instruction |->
       <<"Y","o","u"," ","a","r","e"," ","a"," ","p","r","o","f","e","s","s","i","o","n","a","l",
       " ","w","r","i","t","e","r","."," ","U","s","i","n","g"," ","t","h","e"," ","r","e","s",
       "e","a","r","c","h"," ","f","i","n","d","i","n","g","s","\n","f","r","o","m"," ","{",
       "r","e","s","e","a","r","c","h","_","f","i","n","d","i","n","g","s","}"," ","a","n","d",
       " ","d","a","t","a"," ","i","n","s","i","g","h","t","s"," ","f","r","o","m"," ","{","d",
       "a","t","a","_","i","n","s","i","g","h","t","s","}",",","\n","w","r","i","t","e"," ",
       "a"," ","w","e","l","l","-","s","t","r","u","c","t","u","r","e","d",","," ","e","n","g",
       "a","g","i","n","g"," ","s","u","m","m","a","r","y","."," ","I","n","c","l","u","d","e",
       " ","a","n"," ","i","n","t","r","o","d","u","c","t","i","o","n",",","\n","k","e","y",
       " ","p","o","i","n","t","s",","," ","a","n","d"," ","c","o","n","c","l","u","s","i","o",
       "n",".">>,
     output_key |-> <<"f","i","n","a","l","_","r","e","p","o","r","t">>]

parallel_gather ==
    [kind |-> "ParallelAgent", name |-> "GatherInfo",
     sub_agents |-> <<research_agent, data_agent>>]

\* variant: the Writer is declared before the group
root_agent_writer_first ==
    [kind |-> "SequentialAgent", name |-> "ReportPipeline",
     sub_agents |-> <<writer_agent, parallel_gather>>]

\* variant: the root is a ParallelAgent
root_agent_parallel ==
    [kind |-> "ParallelAgent", name |-> "ReportPipeline",
     sub_agents |-> <<parallel_gather, writer_agent>>]

root_agent ==
    [kind |-> "SequentialAgent", name |-> "ReportPipeline",
     sub_agents |-> <<parallel_gather, writer_agent>>]

-----------------------------------------------------------------------------
(* the agent runtime: instruction templating, ParallelAgent,               *)
(* SequentialAgent, output_key                                             *)

\* the LlmAgents below a sub-agent of the root
Leaves(agent) ==
    IF agent.kind = "LlmAgent" THEN {agent}
    ELSE {agent.sub_agents[i] : i \in 1..Len(agent.sub_agents)}

Stages == root_agent.sub_agents
StageLeaves(i) == Leaves(Stages[i])
AllLeaves == UNION {StageLeaves(i) : i \in 1..Len(Stages)}
LeafNames == {a.name : a \in AllLeaves}
OutputKeys == {a.output_key : a \in AllLeaves}

\* index of the brace that closes the one at i, 0 when there is none
CloseIdx(s, i) ==
    IF \E j \in (i + 1)..Len(s) : s[j] = "}"
    THEN CHOOSE j \in (i + 1)..Len(s) :
            s[j] = "}" /\ \A k \in (i + 1)..(j - 1) : s[k] # "}"
    ELSE 0

\* a placeholder {name} opens at p: the text up to the closing brace holds
\* no other brace
IsOpen(s, p) ==
    /\ s[p] = "{"
    /\ CloseIdx(s, p) # 0
    /\ \A k \in (p + 1)..(CloseIdx(s, p) - 1) : s[k] # "{"

PlaceholderName(s, p) == SubSeq(s, p + 1, CloseIdx(s, p) - 1)

\* the {name} placeholders of an instruction template
Placeholders(s) == {PlaceholderName(s, p) : p \in {q \in 1..Len(s) : IsOpen(s, q)}}

\* one left-to-right pass from position i replacing each {name} by st[name];
\* a substituted value is not scanned again
RECURSIVE Render(_, _, _)
Render(s, i, st) ==
    LET opens == {p \in i..Len(s) : IsOpen(s, p)} IN
    IF opens = {} THEN SubSeq(s, i, Len(s))
    ELSE LET p == CHOOSE q \in opens : \A r \in opens : q <= r IN
         SubSeq(s, i, p - 1) \o st[PlaceholderName(s, p)]
         \o Render(s, CloseIdx(s, p) + 1, st)

\* a sub-agent of the root may run: a SequentialAgent runs its sub-agents one
\* after the other in declared order, a ParallelAgent all at once
StageEnabled(i) ==
    /\ pipeline = "running"
    /\ root_agent.kind = "SequentialAgent" => stage = i

\* the agents whose prompt is the same in every run
FixedPrompt == {a.name : a \in {b \in AllLeaves : Placeholders(b.instruction) = {}}}

StageDone(i) == \A a \in StageLeaves(i) : status[a.name] = "done"
StageFailed(i) == \E a \in StageLeaves(i) : status[a.name] = "failed"

-----------------------------------------------------------------------------
(* inputs                                                                  *)

CityInputs ==
    { <<"T","o","k","y","o">>, <<"L","O","N","D","O","N">>, <<"n","e","w"," ","y","o","r","k">>, <<"P","a","r","i","s">>, <<"S","y","D","n","E","y">>, <<"B","e","r","l","i","n">>, <<>> }

KeyInputs == { <<"u","n","i","t","s">>, <<"r","e","s","e","a","r","c","h","_","f","i","n","d","i","n","g","s">> }

NumValues == 2
ValuePool == << <<"m","e","t","r","i","c">>, <<"i","m","p","e","r","i","a","l">>, <<"k","e","l","v","i","n">>, <<"n","o","n","e">> >>
ValueInputs == { ValuePool[i] : i \in 1..NumValues }

\* final responses the model may give
NumTexts == 2
TextPool == << <<"a","l","p","h","a">>, <<"b","e","t","a">>, <<"g","a","m","m","a">>, <<"d","e","l","t","a">> >>
Texts == { TextPool[i] : i \in 1..NumTexts }

-----------------------------------------------------------------------------
Init ==
    /\ state = <<>>
    /\ last = [tool |-> "none"]
    /\ latest = <<>>
    /\ repeated = FALSE
    /\ status = [n \in LeafNames |-> "idle"]
    /\ rendered = [n \in LeafNames |-> <<>>]
    /\ output = [n \in LeafNames |-> <<>>]
    /\ writes = [k \in OutputKeys |-> 0]
    /\ runs = [n \in LeafNames |-> 0]
    /\ stage = 1
    /\ pipeline = "running"
    /\ reply \in [FixedPrompt -> Texts]

CallGetCurrentTime ==
    \E city \in CityInputs, clock \in ClockSamples :
        /\ last' = [tool |-> "get_current_time", args |-> <<city>>,
                    result |-> get_current_time(city, clock)]
        /\ repeated' = FALSE
        /\ UNCHANGED <<state, latest, pipeVars>>

CallGetWeather ==
    \E city \in CityInputs :
        /\ last' = [tool |-> "get_weather", args |-> <<city>>,
                    result |-> get_weather(city)]
        /\ repeated' = FALSE
        /\ UNCHANGED <<state, latest, pipeVars>>

CallSaveUserPreference ==
    \E key \in KeyInputs, value \in ValueInputs :
        LET r == save_user_preference(key, value, state) IN
        /\ last' = [tool |-> "save_user_preference", args |-> <<key, value>>,
                    result |-> r.result]
        /\ state' = r.state
        /\ latest' = dict_set(latest, key, value)
        /\ repeated' = (/\ last.tool = "save_user_preference"
                        /\ last.args = <<key, value>>)
        /\ UNCHANGED pipeVars

\* an LlmAgent starts its turn: its instruction is interpolated from session
\* state; a placeholder naming an absent key raises KeyError
Start ==
    \E i \in 1..Len(Stages) : \E a \in StageLeaves(i) :
        /\ StageEnabled(i)
        /\ status[a.name] = "idle"
        /\ runs' = [runs EXCEPT ![a.name] = @ + 1]
        /\ IF Placeholders(a.instruction) \subseteq DOMAIN state
           THEN /\ status' = [status EXCEPT ![a.name] = "running"]
                /\ rendered' = [rendered EXCEPT
                                   ![a.name] = Render(a.instruction, 1, state)]
           ELSE /\ status' = [status EXCEPT ![a.name] = "failed"]
                /\ UNCHANGED rendered
        /\ UNCHANGED <<state, toolVars, output, writes, stage, pipeline, reply>>

\* an LlmAgent produces its final response, which is saved under output_key
Finish ==
    \E a \in AllLeaves :
        \E text \in IF a.name \in FixedPrompt THEN {reply[a.name]} ELSE Texts :
            /\ pipeline = "running"
            /\ status[a.name] = "running"
            /\ status' = [status EXCEPT ![a.name] = "done"]
            /\ output' = [output EXCEPT ![a.name] = text]
            /\ state' = dict_set(state, a.output_key, text)
            /\ writes' = [writes EXCEPT ![a.output_key] = @ + 1]
            /\ UNCHANGED <<toolVars, rendered, runs, stage, pipeline, reply>>

\* the model call of an LlmAgent fails
Fail ==
    \E a \in AllLeaves :
        /\ pipeline = "running"
        /\ status[a.name] = "running"
        /\ status' = [status EXCEPT ![a.name] = "failed"]
        /\ UNCHANGED <<state, toolVars, rendered, output, writes, runs, stage,
                       pipeline, reply>>

\* the current sub-agent of the root has completed: a ParallelAgent completes
\* when all its members have
Advance ==
    /\ pipeline = "running"
    /\ IF root_agent.kind = "SequentialAgent"
       THEN /\ stage <= Len(Stages)
            /\ StageDone(stage)
            /\ stage' = stage + 1
            /\ pipeline' = IF stage = Len(Stages) THEN "done" ELSE "running"
       ELSE /\ \A i \in 1..Len(Stages) : StageDone(i)
            /\ stage' = Len(Stages) + 1
            /\ pipeline' = "done"
    /\ UNCHANGED <<state, toolVars, status, rendered, output, writes, runs,
                   reply>>

\* a failure propagates: the group fails as a whole and the root stops
Abort ==
    /\ pipeline = "running"
    /\ \E i \in 1..Len(Stages) : StageEnabled(i) /\ StageFailed(i)
    /\ pipeline' = "failed"
    /\ UNCHANGED <<state, toolVars, status, rendered, output, writes, runs,
                   stage, reply>>

Next ==
    \/ CallGetCurrentTime
    \/ CallGetWeather
    \/ CallSaveUserPreference
    \/ Start
    \/ Finish
    \/ Fail
    \/ Advance
    \/ Abort

Spec == Init /\ [][Next]_vars

\* agent_template.py alone
ToolNext ==
    \/ CallGetCurrentTime
    \/ CallGetWeather
    \/ CallSaveUserPreference

ToolSpec == Init /\ [][ToolNext]_vars

\* multi_agent_template.py alone
PipelineNext ==
    \/ Start
    \/ Finish
    \/ Fail
    \/ Advance
    \/ Abort

PipelineSpec == Init /\ [][PipelineNext]_vars

\* the event loop runs every task that is ready
FairPipelineSpec ==
    /\ Init /\ [][PipelineNext]_vars
    /\ WF_vars(Start) /\ WF_vars(Finish) /\ WF_vars(Advance) /\ WF_vars(Abort)

-----------------------------------------------------------------------------
(* helpers of the properties                                               *)

\* s and t are equal up to the case of their letters
EqIgnoreCase(s, t) ==
    /\ Len(s) = Len(t)
    /\ \A i \in 1..Len(s) :
          \/ s[i] = t[i]
          \/ \E j \in 1..Len(UpperCase) :
                {s[i], t[i]} = {UpperCase[j], LowerCase[j]}

\* t occurs in s
Contains(s, t) ==
    \E k \in 0..(Len(s) - Len(t)) : SubSeq(s, k + 1, k + Len(t)) = t

IsDigit(c) == \E i \in 1..Len(DigitChars) : DigitChars[i] = c
IsUpper(c) == \E i \in 1..Len(UpperCase) : UpperCase[i] = c

\* ts has the form YYYY-MM-DD HH:MM:SS <tz-abbrev>
IsTimestamp(ts) ==
    /\ Len(ts) >= 21
    /\ \A i \in {1, 2, 3, 4, 6, 7, 9, 10, 12, 13, 15, 16, 18, 19} : IsDigit(ts[i])
    /\ ts[5] = "-" /\ ts[8] = "-" /\ ts[11] = " "
    /\ ts[14] = ":" /\ ts[17] = ":" /\ ts[20] = " "
    /\ \A i \in 21..Len(ts) : IsUpper(ts[i])

\* the report ends with a timestamp
EndsWithTimestamp(report) ==
    \E k \in 1..Len(report) : IsTimestamp(SubSeq(report, k, Len(report)))

TimeCities == { <<"n","e","w"," ","y","o","r","k">>, <<"l","o","n","d","o","n">>, <<"t","o","k","y","o">>, <<"p","a","r","i","s">>, <<"s","y","d","n","e","y">> }
WeatherCities == { <<"n","e","w"," ","y","o","r","k">>, <<"l","o","n","d","o","n">>, <<"t","o","k","y","o">> }
TokyoWeather == <<"P","a","r","t","l","y"," ","c","l","o","u","d","y",","," ","2","8","°","C"," ","(","8",
       "2","°","F",")">>

IsSuccess(r) ==
    /\ ~IsException(r)
    /\ "status" \in DOMAIN r /\ r.status = "success"
    /\ "report" \in DOMAIN r

IsError(r) ==
    /\ ~IsException(r)
    /\ "status" \in DOMAIN r /\ r.status = "error"
    /\ "error_message" \in DOMAIN r /\ Len(r.error_message) > 0

UserKey(key) == <<"u","s","e","r",":">> \o key
IsUserKey(k) == Len(k) >= 5 /\ SubSeq(k, 1, 5) = <<"u","s","e","r",":">>

ResearchFindings == <<"r","e","s","e","a","r","c","h","_","f","i","n","d","i","n","g","s">>
DataInsights == <<"d","a","t","a","_","i","n","s","i","g","h","t","s">>
FinalReport == <<"f","i","n","a","l","_","r","e","p","o","r","t">>

\* the session-state entry k differs between the two states of a step
Changed(k) ==
    \/ (k \in DOMAIN state) # (k \in DOMAIN state')
    \/ k \in DOMAIN state /\ k \in DOMAIN state' /\ state[k] # state'[k]

-----------------------------------------------------------------------------
(* properties                                                              *)

\* C1: get_current_time returns status "success" and a report ending in a
\* timestamp YYYY-MM-DD HH:MM:SS <tz-abbrev> for each of the five supported
\* cities in any letter case, and status "error" with a non-empty
\* error_message for every other city string, the empty string included.
C1_TimeLookup ==
    last.tool = "get_current_time" =>
        IF \E c \in TimeCities : EqIgnoreCase(last.args[1], c)
        THEN IsSuccess(last.result) /\ EndsWithTimestamp(last.result.report)
        ELSE IsError(last.result)

C1_Witness ==
    /\ last.tool = "get_current_time"
    /\ last.args[1] = <<"L","O","N","D","O","N">>
    /\ IsSuccess(last.result)

\* C2: get_weather returns success with a report containing the city's
\* dataset entry for new york, london and tokyo in any letter case (for
\* Tokyo the entry is "Partly cloudy, 28 C (82 F)" with degree signs), and an
\* error result for every other city string.
C2_WeatherLookup ==
    last.tool = "get_weather" =>
        IF \E c \in WeatherCities : EqIgnoreCase(last.args[1], c)
        THEN /\ IsSuccess(last.result)
             /\ \A c \in WeatherCities :
                   EqIgnoreCase(last.args[1], c) =>
                      /\ c \in DOMAIN mock_weather
                      /\ Contains(last.result.report, mock_weather[c])
             /\ EqIgnoreCase(last.args[1], <<"t","o","k","y","o">>) =>
                   Contains(last.result.report, TokyoWeather)
        ELSE IsError(last.result)

C2_Witness ==
    /\ last.tool = "get_weather"
    /\ last.args[1] = <<"T","o","k","y","o">>
    /\ IsSuccess(last.result)

\* C3: a save_user_preference call that repeats the key and value of the
\* save made just before it returns the same confirmation result, and after
\* any sequence of saves the session state holds under user:<key> the value
\* of the latest save made for that key.
C3_LatestHeld ==
    \A key \in DOMAIN latest :
        /\ UserKey(key) \in DOMAIN state
        /\ state[UserKey(key)] = latest[key]

C3_RepeatedSave == repeated' => last'.result = last.result

C3_PreferenceSave == []C3_LatestHeld /\ [][C3_RepeatedSave]_vars

C3_Witness ==
    /\ repeated
    /\ last.tool = "save_user_preference"
    /\ Cardinality(DOMAIN latest) = Cardinality(KeyInputs)
    /\ state[UserKey(last.args[1])] = ValuePool[2]

\* C4: every tool call returns a dict (no exception) with a status field; it
\* carries error_message exactly when status is "error", and a payload (report,
\* or the echoed key and value) exactly when status is not "error".
C4_ResultShape ==
    last.tool # "none" =>
        LET r == last.result
            hasPayload == \/ "report" \in DOMAIN r
                          \/ {"key", "value"} \subseteq DOMAIN r
        IN /\ ~IsException(r)
           /\ "status" \in DOMAIN r
           /\ ("error_message" \in DOMAIN r) <=> (r.status = "error")
           /\ hasPayload <=> (r.status # "error")

C4_Witness ==
    /\ last.tool = "get_current_time"
    /\ last.args[1] = <<"B","e","r","l","i","n">>
    /\ IsError(last.result)

\* C5: a save_user_preference(key, value) step sets user:<key> to value and
\* changes no other session-state entry; a get_current_time or get_weather
\* step leaves session state unchanged; a pipeline step changes only
\* output_key slots, none of which is user:-prefixed.
C5_ToolStep ==
    IF last'.tool = "save_user_preference"
    THEN /\ UserKey(last'.args[1]) \in DOMAIN state'
         /\ state'[UserKey(last'.args[1])] = last'.args[2]
         /\ \A k \in (DOMAIN state \cup DOMAIN state') \ {UserKey(last'.args[1])} :
               ~Changed(k)
    ELSE state' = state

C5_PipelineStep ==
    \A k \in DOMAIN state \cup DOMAIN state' :
        Changed(k) =>
            /\ k \in {ResearchFindings, DataInsights, FinalReport}
            /\ ~IsUserKey(k)

C5_Frame ==
    [][IF pipeVars' = pipeVars THEN C5_ToolStep ELSE C5_PipelineStep]_vars

C5_Witness ==
    /\ last.tool = "save_user_preference"
    /\ last.args[1] = ResearchFindings
    /\ ResearchFindings \in DOMAIN state
    /\ UserKey(ResearchFindings) \in DOMAIN state
    /\ state[ResearchFindings] # state[UserKey(ResearchFindings)]

\* C6: every stage's instruction references only output_keys of strictly
\* earlier stages, the Researcher and DataAnalyst instructions reference
\* none, and the Writer has started only if the GatherInfo group has
\* completed: both members are done and research_findings and data_insights
\* are in session state.
C6_StageOrder ==
    /\ \A i \in 1..Len(Stages) : \A a \in StageLeaves(i) :
          Placeholders(a.instruction) \subseteq
             {b.output_key : b \in UNION {StageLeaves(j) : j \in 1..(i - 1)}}
    /\ Placeholders(research_agent.instruction) = {}
    /\ Placeholders(data_agent.instruction) = {}
    /\ status["Writer"] # "idle" =>
          /\ status["Researcher"] = "done"
          /\ status["DataAnalyst"] = "done"
          /\ stage >= 2
          /\ {ResearchFindings, DataInsights} \subseteq DOMAIN state

C6_Witness == status["Writer"] = "running" /\ runs["Writer"] = 1

\* C7: neither member of GatherInfo reads the other's output_key or writes
\* the other's slot; in every interleaving a completed member was prompted
\* with its instruction as declared and its output is the model's answer to
\* that prompt; once both have completed, research_findings and
\* data_insights hold exactly these answers.
C7_OrderIndependence ==
    /\ \A a \in Leaves(parallel_gather) : \A b \in Leaves(parallel_gather) :
          a.name # b.name =>
             /\ a.output_key # b.output_key
             /\ b.output_key \notin Placeholders(a.instruction)
    /\ status["Researcher"] = "done" =>
          rendered["Researcher"] = research_agent.instruction
    /\ status["DataAnalyst"] = "done" =>
          rendered["DataAnalyst"] = data_agent.instruction
    /\ \A n \in {"Researcher", "DataAnalyst"} :
          status[n] = "done" => n \in DOMAIN reply /\ output[n] = reply[n]
    /\ status["Researcher"] = "done" /\ status["DataAnalyst"] = "done" =>
          /\ {ResearchFindings, DataInsights} \subseteq DOMAIN state
          /\ state[ResearchFindings] = reply["Researcher"]
          /\ state[DataInsights] = reply["DataAnalyst"]

C7_Witness ==
    /\ status["Researcher"] = "done" /\ status["DataAnalyst"] = "done"
    /\ reply["Researcher"] # reply["DataAnalyst"]
    /\ stage = 1

\* C8: once the Writer has been started after both upstream agents
\* succeeded, its rendered instruction contains the text of both upstream
\* outputs.
C8_WriterSeesOutputs ==
    (/\ runs["Writer"] > 0
     /\ status["Researcher"] = "done"
     /\ status["DataAnalyst"] = "done") =>
        /\ Contains(rendered["Writer"], output["Researcher"])
        /\ Contains(rendered["Writer"], output["DataAnalyst"])

C8_Witness ==
    /\ status["Writer"] = "running"
    /\ output["Researcher"] # output["DataAnalyst"]
    /\ rendered["Writer"] # writer_agent.instruction

\* C9: if Researcher or DataAnalyst has failed, the GatherInfo group never
\* completes and the pipeline is never done, the Writer is never started and
\* final_report is never written; no agent is started twice.
C9_FailureAborts ==
    /\ \A n \in LeafNames : runs[n] <= 1
    /\ (status["Researcher"] = "failed" \/ status["DataAnalyst"] = "failed") =>
          /\ stage = 1
          /\ pipeline # "done"
          /\ status["Writer"] = "idle"
          /\ runs["Writer"] = 0
          /\ FinalReport \notin DOMAIN state
          /\ FinalReport \in DOMAIN writes => writes[FinalReport] = 0

C9_Witness ==
    /\ status["Researcher"] = "failed"
    /\ status["DataAnalyst"] = "done"
    /\ pipeline = "failed"

\* C10: under fair scheduling a run reaches completion unless an agent
\* fails; at completion final_report holds the Writer's output, and
\* research_findings, data_insights and final_report are three distinct slots,
\* each written exactly once and holding the output of the agent declaring it.
C10_AtCompletion ==
    pipeline = "done" =>
        /\ FinalReport \in DOMAIN state
        /\ state[FinalReport] = output["Writer"]
        /\ OutputKeys = {ResearchFindings, DataInsights, FinalReport}
        /\ Cardinality(OutputKeys) = 3
        /\ \A a \in AllLeaves :
              /\ a.output_key \in DOMAIN state
              /\ state[a.output_key] = output[a.name]
              /\ writes[a.output_key] = 1

C10_Completion ==
    /\ <>(pipeline = "done" \/ \E n \in LeafNames : status[n] = "failed")
    /\ []C10_AtCompletion

C10_Witness ==
    /\ pipeline = "done"
    /\ \A n \in LeafNames : status[n] = "done"
    /\ Cardinality({output[n] : n \in LeafNames}) > 1
=============================================================================
